---- MODULE Spec2Model ----
(***************************************************************************)
(* A model of lib/DXIL/DxilUtilDbgInfoAndMisc.cpp: the debug-value helpers *)
(* (FindDbgValueInst, MigrateDebugValue,                                   *)
(* TryScatterDebugValueToVectorElements) and the instruction diagnostics   *)
(* (EmitErrorOnInstruction / EmitWarningOnInstruction with the phi/select  *)
(* location search).                                                       *)
(*                                                                         *)
(* Two specifications share the module.  Spec runs the debug-value helpers *)
(* on one basic block that holds a chain of insertelement instructions.    *)
(* SpecEmit runs one diagnostic call on a graph of instructions and their  *)
(* users.  The LLVM calls the file makes are modelled by what the LLVM     *)
(* API does: a new use is linked at the head of a value's use list,        *)
(* insertAfter(I) puts an instruction right behind I, and the trailing     *)
(* Instruction* argument of DIBuilder::insertDbgValueIntrinsic is its      *)
(* InsertBefore parameter.                                                 *)
(***************************************************************************)
EXTENDS Integers, Sequences, FiniteSets, TLC

\* ------------------------------------------------------------------ bounds

\* The longest insertelement chain of the block.
MaxLinks == 3
\* The number of helper calls in one run.
MaxOps == 2

\* ------------------------------------------------------------- the values

VARIABLES
    chain,      \* the insertelement instructions: link j holds [elt, idx]
    elemBits,   \* getTypeSizeInBits of the vector's element type
    order,      \* the basic block: its instructions in program order
    dbg,        \* the llvm.dbg.value calls: id -> [val, var, expr, loc]
    uses,       \* value -> the dbg.value users of its MetadataAsValue, head first
    mdv,        \* the values that have a LocalAsMetadata / MetadataAsValue
    aborted,    \* an assert of a debug build has ended the process
    ops,        \* the number of helper calls made
    last,       \* the last helper call, with what it found and created
    kind,       \* instruction -> "phi" | "select" | "other"
    hasLoc,     \* instruction -> whether getDebugLoc().get() is non-null
    users,      \* instruction -> the instructions that use it
    stack,      \* the call stack of the diagnostic call
    retval,     \* what the callee that has just returned has returned
    sink,       \* the diagnostics LLVMContext::diagnose has received
    examined,   \* the <<instruction, depth>> pairs whose fields were read
    nsteps,     \* the steps the diagnostic call has taken
    call        \* the diagnostic call of this run

dvVars == <<chain, elemBits, order, dbg, uses, mdv, aborted, ops, last>>
emVars == <<kind, hasLoc, users, stack, retval, sink, examined, nsteps, call>>
vars == <<dvVars, emVars>>

Scalar(n) == <<"scalar", n>>
Ins(j) == <<"insertelement", j>>
Dbg(n) == <<"dbg.value", n>>
Arg == <<"argument", 0>>
Undef == <<"undef", 0>>
Null == <<"null", 0>>

ScalarInsts == {Scalar(1), Scalar(2)}
InsertInsts == {Ins(j) : j \in 1..Len(chain)}
\* What a LocalAsMetadata can wrap: instructions and arguments.
LocalValues == ScalarInsts \cup InsertInsts \cup {Arg}
AllValues == LocalValues \cup {Undef}
ElemSizes == {16, 32}
Vars == {"x", "y"}
NoCall == [op |-> "none", a |-> Null, b |-> Null, found |-> Null,
           created |-> <<>>, returned |-> TRUE]

\* dyn_cast<Instruction>
IsInstruction(v) == v \in ScalarInsts \cup InsertInsts
\* isa<InsertElementInst>; every insertelement has a vector type
IsInsertElement(v) == v \in InsertInsts

\* InsertElementInst::getOperand
VecOperand(v) == IF v[2] = 1 THEN Undef ELSE Ins(v[2] - 1)
EltOperand(v) == chain[v[2]].elt
IdxOperand(v) == chain[v[2]].idx

Empty == [kind |-> "empty", off |-> 0, size |-> 0]
Deref == [kind |-> "deref", off |-> 0, size |-> 0]
BitPiece(o, s) == [kind |-> "bit_piece", off |-> o, size |-> s]
\* A null DIExpression*
NullExpr == [kind |-> "null", off |-> 0, size |-> 0]
\* The expressions the whole-vector dbg.value may start with.
HeadExprs == {Empty, Deref, BitPiece(32, 64)}

\* The chains of the block: indices ascending from 0 (a vector built element
\* by element), descending to 0, or all 0 (one element overwritten); the
\* inserted scalars alternating, or one scalar inserted everywhere (a splat).
IdxPatterns == {"ascending", "descending", "same"}
EltPatterns == {"alternate", "splat"}
ChainOf(n, ip, ep) ==
    [j \in 1..n |->
       [elt |-> IF ep = "splat" THEN Scalar(1) ELSE Scalar(2 - (j % 2)),
        idx |-> CASE ip = "ascending" -> j - 1
                  [] ip = "descending" -> n - j
                  [] OTHER -> 0]]

\* ------------------------------------------------------- the basic block

IndexOf(s, x) == CHOOSE k \in 1..Len(s) : s[k] = x
InBlock(s, x) == \E k \in 1..Len(s) : s[k] = x
\* Instruction::getNextNode
NextNode(s, x) ==
    IF InBlock(s, x) /\ IndexOf(s, x) < Len(s) THEN s[IndexOf(s, x) + 1] ELSE Null
PrevNode(s, x) ==
    IF InBlock(s, x) /\ IndexOf(s, x) > 1 THEN s[IndexOf(s, x) - 1] ELSE Null
\* Instruction::removeFromParent
RemoveFromParent(s, x) == SelectSeq(s, LAMBDA y : y # x)
\* Instruction::insertAfter
InsertAfter(s, x, at) ==
    LET k == IndexOf(s, at) IN SubSeq(s, 1, k) \o <<x>> \o SubSeq(s, k + 1, Len(s))
\* (a variant: the new instruction is put behind `at`)
InsertBeforeMutant(s, x, at) ==
    LET k == IndexOf(s, at) IN SubSeq(s, 1, k) \o <<x>> \o SubSeq(s, k + 1, Len(s))
\* The InsertBefore parameter of DIBuilder::insertDbgValueIntrinsic
InsertBefore(s, x, at) ==
    LET k == IndexOf(s, at) IN SubSeq(s, 1, k - 1) \o <<x>> \o SubSeq(s, k, Len(s))

\* ------------------------------------------------------ FindDbgValueInst

\* getIfExists twice, then the first user that is a DbgValueInst; m and u
\* are the metadata wrappers and the use lists it reads
FindIn(m, u, val) ==
    IF val \in m /\ u[val] # <<>> THEN Head(u[val]) ELSE Null
FindDbgValueInst(val) == FindIn(mdv, uses, val)

\* ----------------------------------------------------- MigrateDebugValue

\* (a variant: the use stays linked in the old value's list)
SetOperand0Mutant(u, r, old, new) == [u EXCEPT ![new] = <<r>> \o u[new]]
\* Use::set: unlink the use from its list, link it at the head of the new one
SetOperand0(u, r, old, new) ==
    LET cut == [u EXCEPT ![old] = SelectSeq(u[old], LAMBDA y : y # r)]
    IN  [cut EXCEPT ![new] = <<r>> \o cut[new]]

\* (a variant: New's metadata wrapper is made before the lookup)
MigrateDebugValueMutant(Old, New) ==
    LET DbgValInst == FindDbgValueInst(Old) IN
    /\ ~aborted
    /\ ops < MaxOps
    /\ ops' = ops + 1
    /\ last' = [op |-> "migrate", a |-> Old, b |-> New, found |-> DbgValInst,
                created |-> <<>>, returned |-> TRUE]
    /\ mdv' = mdv \cup {New}
    /\ IF DbgValInst = Null
       THEN UNCHANGED <<order, dbg, uses>>
       ELSE /\ dbg' = [dbg EXCEPT ![DbgValInst].val = New]
            /\ uses' = SetOperand0(uses, DbgValInst, Old, New)
            /\ IF IsInstruction(New) /\ NextNode(order, New) # DbgValInst
               THEN order' = InsertAfter(RemoveFromParent(order, DbgValInst),
                                         DbgValInst, New)
               ELSE UNCHANGED order
    /\ UNCHANGED <<chain, elemBits, aborted, emVars>>

MigrateDebugValue(Old, New) ==
    LET DbgValInst == FindDbgValueInst(Old) IN
    /\ ~aborted
    /\ ops < MaxOps
    /\ ops' = ops + 1
    /\ last' = [op |-> "migrate", a |-> Old, b |-> New, found |-> DbgValInst,
                created |-> <<>>, returned |-> TRUE]
    /\ IF DbgValInst = Null
       THEN UNCHANGED <<order, dbg, uses, mdv>>
       ELSE /\ dbg' = [dbg EXCEPT ![DbgValInst].val = New]
            /\ uses' = SetOperand0(uses, DbgValInst, Old, New)
            /\ mdv' = mdv \cup {New}
            /\ IF IsInstruction(New) /\ NextNode(order, New) # DbgValInst
               THEN order' = InsertAfter(RemoveFromParent(order, DbgValInst),
                                         DbgValInst, New)
               ELSE UNCHANGED order
    /\ UNCHANGED <<chain, elemBits, aborted, emVars>>

\* ------------------------------- TryScatterDebugValueToVectorElements

\* DIBuilder::insertDbgValueIntrinsic(V, 0, VarInfo, Expr, DL, InsertBefore):
\* a new llvm.dbg.value call on V's metadata, put before InsertBefore
InsertDbgValueIntrinsic(st, V, VarInfo, Expr, DL, At) ==
    LET id == Dbg(Cardinality(DOMAIN st.dbg) + 1) IN
    [st EXCEPT
       !.dbg = [r \in DOMAIN st.dbg \cup {id} |->
                  IF r = id THEN [val |-> V, var |-> VarInfo, expr |-> Expr, loc |-> DL]
                  ELSE st.dbg[r]],
       !.uses = [st.uses EXCEPT ![V] = <<id>> \o st.uses[V]],
       !.mdv = st.mdv \cup {V},
       !.order = InsertBefore(st.order, id, At),
       !.created = Append(st.created, id)]

\* (a variant: the offset in bytes)
EltOffsetInBitsMutant(EltIdx, ElemSizeInBits) == EltIdx * (ElemSizeInBits \div 8)
\* unsigned OffsetInBits = EltIdx * ElemSizeInBits
EltOffsetInBits(EltIdx, ElemSizeInBits) == EltIdx * ElemSizeInBits

\* The assert of the loop body: the nested piece lies in its parent.
PieceInParent(OffsetInBits, ElemSizeInBits, Parent) ==
    OffsetInBits + ElemSizeInBits <= Parent.size

\* (a variant: the parent's offset is not added)
LinkPieceMutant(EltIdx, ElemSizeInBits, Parent) ==
    BitPiece(EltOffsetInBits(EltIdx, ElemSizeInBits), ElemSizeInBits)
\* The bit-piece expression one link's record gets (lines 274-284).
LinkPiece(EltIdx, ElemSizeInBits, Parent) ==
    LET OffsetInBits == EltOffsetInBits(EltIdx, ElemSizeInBits) IN
    IF Parent # NullExpr
    THEN BitPiece(OffsetInBits + Parent.off, ElemSizeInBits)
    ELSE BitPiece(OffsetInBits, ElemSizeInBits)

\* (a variant: a link whose element has a dbg.value already gets none)
RECURSIVE ScatterLoopMutant(_, _, _, _, _)
ScatterLoopMutant(Val, st, VecDbgValInst, Parent, asserts) ==
    IF ~IsInsertElement(Val) THEN st
    ELSE ScatterLoopMutant(
           VecOperand(Val),
           IF FindIn(st.mdv, st.uses, EltOperand(Val)) # Null THEN st
           ELSE InsertDbgValueIntrinsic(st, EltOperand(Val), dbg[VecDbgValInst].var,
                                        LinkPiece(IdxOperand(Val), elemBits, Parent),
                                        dbg[VecDbgValInst].loc, Val),
           VecDbgValInst, Parent, asserts)

\* The while loop, from Val down to the first value that is no insertelement.
\* asserts: the build keeps assert() (no NDEBUG).
RECURSIVE ScatterLoop(_, _, _, _, _)
ScatterLoop(Val, st, VecDbgValInst, Parent, asserts) ==
    IF ~IsInsertElement(Val) THEN st
    ELSE
      LET NewElt == EltOperand(Val)
          EltIdx == IdxOperand(Val)
          OffsetInBits == EltOffsetInBits(EltIdx, elemBits)
      IN  IF Parent # NullExpr /\ asserts /\ ~PieceInParent(OffsetInBits, elemBits, Parent)
          THEN [st EXCEPT !.aborted = TRUE]
          ELSE ScatterLoop(VecOperand(Val),
                           InsertDbgValueIntrinsic(st, NewElt, dbg[VecDbgValInst].var,
                                                   LinkPiece(EltIdx, elemBits, Parent),
                                                   dbg[VecDbgValInst].loc, Val),
                           VecDbgValInst, Parent, asserts)

\* ParentBitPiece: the record's expression when it is a bit piece, else null
ParentBitPiece(VecDbgValInst) ==
    IF dbg[VecDbgValInst].expr.kind = "bit_piece" THEN dbg[VecDbgValInst].expr ELSE NullExpr

TryScatterDebugValueToVectorElements(Val, asserts) ==
    LET VecDbgValInst == FindDbgValueInst(Val)
        st0 == [order |-> order, dbg |-> dbg, uses |-> uses, mdv |-> mdv,
                created |-> <<>>, aborted |-> FALSE]
        st1 == IF ~IsInsertElement(Val) \/ VecDbgValInst = Null THEN st0
               ELSE ScatterLoop(Val, st0, VecDbgValInst,
                                ParentBitPiece(VecDbgValInst), asserts)
    IN
    /\ ~aborted
    /\ ops < MaxOps
    /\ ops' = ops + 1
    /\ last' = [op |-> "scatter", a |-> Val, b |-> Null, found |-> VecDbgValInst,
                created |-> st1.created, returned |-> ~st1.aborted]
    /\ order' = st1.order
    /\ dbg' = st1.dbg
    /\ uses' = st1.uses
    /\ mdv' = st1.mdv
    /\ aborted' = st1.aborted
    /\ UNCHANGED <<chain, elemBits, emVars>>

\* ------------------------------------------------------------ the block

EmIdle ==
    /\ kind = <<>>
    /\ hasLoc = <<>>
    /\ users = <<>>
    /\ stack = <<>>
    /\ retval = "void"
    /\ sink = <<>>
    /\ examined = {}
    /\ nsteps = 0
    /\ call = [op |-> "none", inst |-> 0, msg |-> "", sev |-> ""]

\* The block: the scalars, then the chain; the whole-vector dbg.value, when
\* there is one, follows the last insertelement and tracks it.
Init ==
    /\ chain \in {ChainOf(n, ip, ep) : n \in 1..MaxLinks, ip \in IdxPatterns,
                                       ep \in EltPatterns}
    /\ elemBits \in ElemSizes
    /\ \E withRecord \in BOOLEAN, e \in HeadExprs, v \in Vars :
         LET head == Ins(Len(chain))
             insts == [j \in 1..Len(chain) |-> Ins(j)]
         IN  IF withRecord
             THEN /\ order = <<Scalar(1), Scalar(2)>> \o insts \o <<Dbg(1)>>
                  /\ dbg = [r \in {Dbg(1)} |->
                              [val |-> head, var |-> v, expr |-> e,
                               loc |-> IF v = "x" THEN "line1" ELSE "line2"]]
                  /\ uses = [val \in AllValues |-> IF val = head THEN <<Dbg(1)>> ELSE <<>>]
                  /\ mdv = {head}
             ELSE /\ e = Empty /\ v = "x"
                  /\ order = <<Scalar(1), Scalar(2)>> \o insts
                  /\ dbg = <<>>
                  /\ uses = [val \in AllValues |-> <<>>]
                  /\ mdv = {}
    /\ aborted = FALSE
    /\ ops = 0
    /\ last = NoCall
    /\ EmIdle

Next ==
    \/ \E Old \in LocalValues, New \in LocalValues : MigrateDebugValue(Old, New)
    \/ \E Val \in AllValues, asserts \in BOOLEAN :
         TryScatterDebugValueToVectorElements(Val, asserts)

Spec == Init /\ [][Next]_vars

\* --------------------------------------------- the instruction diagnostics

\* The number of instructions of the function a diagnostic is about.
NumInstr == 6
\* if (depth > 4) return false;
MaxDepth == 4

Instr == 1..NumInstr
\* The instruction a diagnostic is reported on; the others are its users,
\* their users, and so on.
Reported == {1}
Kinds == {"phi", "select", "other"}
Msgs == {"m1", "m2"}
NoLoc == <<"noloc", 0>>
NoDiag == [op |-> "none", inst |-> 0, msg |-> "", sev |-> ""]

\* (a variant: the search stops one hop earlier)
TooDeepMutant(depth) == depth >= MaxDepth
\* (a variant: the search goes one hop further)
TooDeepLaxMutant(depth) == depth > MaxDepth + 1
\* if (depth > 4)
TooDeep(depth) == depth > MaxDepth
\* (a variant: the users of any instruction are searched)
IsPhiOrSelectMutant(I) == TRUE
\* I->getDebugLoc().get()
DebugLoc(I) == IF hasLoc[I] THEN <<"loc", I>> ELSE NoLoc
\* isa<PHINode>(I) || isa<SelectInst>(I)
IsPhiOrSelect(I) == kind[I] = "phi" \/ kind[I] = "select"
\* I->getParent()->getParent(): the instructions are those of one function
ParentFunction(I) == "F"

Frame(fn, I, Msg, severity, depth, todo) ==
    [fn |-> fn, inst |-> I, msg |-> Msg, sev |-> severity, depth |-> depth,
     todo |-> todo]
Top == stack[Len(stack)]
Pop == SubSeq(stack, 1, Len(stack) - 1)
Running == stack # <<>>
\* The top frame has just been called / its callee has just returned.
AtEntry(fn) == Running /\ Top.fn = fn /\ retval = "call"
AtReturn(fn) == Running /\ Top.fn = fn /\ retval # "call"

\* One step of the running call: the function and the call stay as they are.
Stepped ==
    /\ nsteps' = nsteps + 1
    /\ UNCHANGED <<call, kind, hasLoc, users, dvVars>>

\* I->getContext().diagnose(DiagnosticInfoDxil(function, DL.get(), Msg, severity))
Diagnose(I, Msg, severity) ==
    Append(sink, [fn |-> ParentFunction(I), loc |-> DebugLoc(I), msg |-> Msg,
                  sev |-> severity])

\* EmitErrorOnInstruction, EmitWarningOnInstruction
EmitOnInstruction(I, Msg, severity) ==
    /\ call = NoDiag
    /\ call' = [op |-> "emit", inst |-> I, msg |-> Msg, sev |-> severity]
    /\ stack' = <<Frame("Emit", I, Msg, severity, 0, {})>>
    /\ retval' = "call"
    /\ UNCHANGED <<sink, examined, nsteps, kind, hasLoc, users, dvVars>>

EmitErrorOnInstruction(I, Msg) == EmitOnInstruction(I, Msg, "DS_Error")

EmitWarningOnInstruction(I, Msg) == EmitOnInstruction(I, Msg, "DS_Warning")

\* EmitWarningOrErrorOnInstruction: no location on a phi or select, so search
EmitFollow ==
    /\ Stepped
    /\ AtEntry("Emit")
    /\ ~hasLoc[Top.inst] /\ IsPhiOrSelect(Top.inst)
    /\ stack' = Append(stack, Frame("Follow", Top.inst, Top.msg, Top.sev, 0, {}))
    /\ retval' = "call"
    /\ UNCHANGED <<sink, examined>>

\* (a variant: the return after a successful search is missing)
EmitFoundMutant ==
    /\ Stepped
    /\ AtReturn("Emit")
    /\ retval = "true"
    /\ sink' = Diagnose(Top.inst, Top.msg, Top.sev)
    /\ stack' = Pop
    /\ retval' = "void"
    /\ UNCHANGED examined

\* EmitWarningOrErrorOnInstruction: the search has emitted, return
EmitFound ==
    /\ Stepped
    /\ AtReturn("Emit")
    /\ retval = "true"
    /\ stack' = Pop
    /\ retval' = "void"
    /\ UNCHANGED <<sink, examined>>

\* EmitWarningOrErrorOnInstruction: diagnose with the instruction's own DL
EmitDiagnose ==
    /\ Stepped
    /\ \/ AtEntry("Emit") /\ ~(~hasLoc[Top.inst] /\ IsPhiOrSelect(Top.inst))
       \/ AtReturn("Emit") /\ retval = "false"
    /\ sink' = Diagnose(Top.inst, Top.msg, Top.sev)
    /\ stack' = Pop
    /\ retval' = "void"
    /\ UNCHANGED examined

\* if (depth > 4) return false;
FollowTooDeep ==
    /\ Stepped
    /\ AtEntry("Follow")
    /\ TooDeep(Top.depth)
    /\ stack' = Pop
    /\ retval' = "false"
    /\ UNCHANGED <<sink, examined>>

\* if (I->getDebugLoc().get()) { EmitWarningOrErrorOnInstruction(I, ...)
FollowLocated ==
    /\ Stepped
    /\ AtEntry("Follow")
    /\ ~(TooDeep(Top.depth))
    /\ hasLoc[Top.inst]
    /\ examined' = examined \cup {<<Top.inst, Top.depth>>}
    /\ stack' = Append(stack, Frame("Emit", Top.inst, Top.msg, Top.sev, Top.depth, {}))
    /\ retval' = "call"
    /\ UNCHANGED sink

\* ... return true; }
FollowEmitted ==
    /\ Stepped
    /\ AtReturn("Follow")
    /\ retval = "void"
    /\ stack' = Pop
    /\ retval' = "true"
    /\ UNCHANGED <<sink, examined>>

\* no location and neither phi nor select: return false
FollowOther ==
    /\ Stepped
    /\ AtEntry("Follow")
    /\ ~(TooDeep(Top.depth))
    /\ ~hasLoc[Top.inst] /\ ~IsPhiOrSelect(Top.inst)
    /\ examined' = examined \cup {<<Top.inst, Top.depth>>}
    /\ stack' = Pop
    /\ retval' = "false"
    /\ UNCHANGED sink

\* for (auto U : I->users()): the loop is entered, the users in any order
FollowUsers ==
    /\ Stepped
    /\ AtEntry("Follow")
    /\ ~(TooDeep(Top.depth))
    /\ ~hasLoc[Top.inst] /\ IsPhiOrSelect(Top.inst)
    /\ examined' = examined \cup {<<Top.inst, Top.depth>>}
    /\ stack' = [stack EXCEPT ![Len(stack)].todo = users[Top.inst]]
    /\ retval' = "false"
    /\ UNCHANGED sink

\* the recursive call on the next user, with depth + 1
FollowNextUser ==
    /\ Stepped
    /\ AtReturn("Follow")
    /\ retval = "false"
    /\ Top.todo # {}
    /\ \E U \in Top.todo :
         stack' = Append([stack EXCEPT ![Len(stack)].todo = Top.todo \ {U}],
                         Frame("Follow", U, Top.msg, Top.sev, Top.depth + 1, {}))
    /\ retval' = "call"
    /\ UNCHANGED <<sink, examined>>

\* the recursive call has returned true: return true
FollowFound ==
    /\ Stepped
    /\ AtReturn("Follow")
    /\ retval = "true"
    /\ stack' = Pop
    /\ retval' = "true"
    /\ UNCHANGED <<sink, examined>>

\* the users are exhausted: return false
FollowExhausted ==
    /\ Stepped
    /\ AtReturn("Follow")
    /\ retval = "false"
    /\ Top.todo = {}
    /\ stack' = Pop
    /\ retval' = "false"
    /\ UNCHANGED <<sink, examined>>

Step ==
    \/ EmitFollow
    \/ EmitFound
    \/ EmitDiagnose
    \/ FollowTooDeep
    \/ FollowLocated
    \/ FollowEmitted
    \/ FollowOther
    \/ FollowUsers
    \/ FollowNextUser
    \/ FollowFound
    \/ FollowExhausted

DvIdle ==
    /\ chain = <<>>
    /\ elemBits = 0
    /\ order = <<>>
    /\ dbg = <<>>
    /\ uses = <<>>
    /\ mdv = {}
    /\ aborted = FALSE
    /\ ops = 0
    /\ last = NoCall

\* The function: every instruction is used by the next one, and one more use
\* may lead anywhere (back, making a cycle, or forward); the instructions
\* are phis without a location but for two, which are of any kind, with or
\* without a location.
InitEmit ==
    /\ \E p \in Instr, q \in Instr, kp \in Kinds, kq \in Kinds,
          lp \in BOOLEAN, lq \in BOOLEAN :
         /\ p <= q
         /\ kind = [i \in Instr |-> IF i = q THEN kq ELSE IF i = p THEN kp ELSE "phi"]
         /\ hasLoc = [i \in Instr |-> IF i = q THEN lq ELSE IF i = p THEN lp ELSE FALSE]
    /\ \E extra \in {{}} \cup {{e} : e \in Instr \X Instr} :
         users = [i \in Instr |->
                    {j \in Instr : j = i + 1 \/ <<i, j>> \in extra}]
    /\ stack = <<>>
    /\ retval = "void"
    /\ sink = <<>>
    /\ examined = {}
    /\ nsteps = 0
    /\ call = NoDiag
    /\ DvIdle

NextEmit ==
    \/ \E I \in Reported, Msg \in Msgs : EmitErrorOnInstruction(I, Msg)
    \/ \E I \in Reported, Msg \in Msgs : EmitWarningOnInstruction(I, Msg)
    \/ EmitFollow
    \/ EmitFound
    \/ EmitDiagnose
    \/ FollowTooDeep
    \/ FollowLocated
    \/ FollowEmitted
    \/ FollowOther
    \/ FollowUsers
    \/ FollowNextUser
    \/ FollowFound
    \/ FollowExhausted

SpecEmit == InitEmit /\ [][NextEmit]_vars

\* ------------------------------------------------- the claims under Spec

\* The k-th insertelement the loop of a scatter call on Val visits.
WalkLink(Val, k) == Ins(Val[2] - k + 1)
SeqSet(q) == {q[k] : k \in 1..Len(q)}
\* The last call was a scatter that found a record on an insertelement.
Scattered == last.op = "scatter" /\ last.found # Null /\ IsInsertElement(last.a)

\* C1 (as the spec states it): after scatter returns, the instruction right
\* after every insertelement of the chain is the new dbg.value that tracks
\* the element that insertelement inserts.
C1_RecordAfterLink ==
    (Scattered /\ last.returned) =>
        \A k \in 1..Len(last.created) :
            /\ NextNode(order, WalkLink(last.a, k)) = last.created[k]
            /\ dbg[last.created[k]].val = EltOperand(WalkLink(last.a, k))

\* C1 (amended): after scatter returns there is one new dbg.value per
\* insertelement of the chain, it tracks the element that insertelement
\* inserts, and it is the instruction right before that insertelement.
C1_RecordBeforeLink ==
    (Scattered /\ last.returned) =>
        /\ Len(last.created) = last.a[2]
        /\ \A k \in 1..Len(last.created) :
            /\ PrevNode(order, WalkLink(last.a, k)) = last.created[k]
            /\ dbg[last.created[k]].val = EltOperand(WalkLink(last.a, k))

C1_Witness ==
    /\ Scattered /\ last.returned
    /\ Len(last.created) = 3
    /\ chain[1].elt # chain[2].elt

\* C2: a scatter call on the head of a chain of N insertelements whose
\* dbg.value has no bit-piece expression creates exactly N new dbg.values, the
\* one of the link with index i tracking that link's element with the piece
\* (i*w, w), the variable and the location of the whole-vector dbg.value;
\* every dbg.value that existed keeps its fields and its place, so one
\* record becomes N+1.
C2_ScatterCreatesOnePerLink ==
    [][(/\ last'.op = "scatter" /\ last'.returned
        /\ IsInsertElement(last'.a)
        /\ FindDbgValueInst(last'.a) # Null
        /\ dbg[FindDbgValueInst(last'.a)].expr.kind # "bit_piece")
       => LET R == FindDbgValueInst(last'.a)
              N == last'.a[2]
              new == last'.created
          IN  /\ Len(new) = N
              /\ Cardinality(SeqSet(new)) = N
              /\ SeqSet(new) \cap DOMAIN dbg = {}
              /\ DOMAIN dbg' = DOMAIN dbg \cup SeqSet(new)
              /\ Cardinality(DOMAIN dbg') = Cardinality(DOMAIN dbg) + N
              /\ \A k \in 1..N :
                   dbg'[new[k]] =
                     [val |-> EltOperand(WalkLink(last'.a, k)),
                      var |-> dbg[R].var,
                      expr |-> BitPiece(IdxOperand(WalkLink(last'.a, k)) * elemBits,
                                        elemBits),
                      loc |-> dbg[R].loc]
              /\ \A r \in DOMAIN dbg : dbg'[r] = dbg[r]
              /\ SelectSeq(order', LAMBDA x : x \notin SeqSet(new)) = order]_vars

C2_Witness ==
    /\ Scattered /\ last.returned
    /\ dbg[last.found].expr.kind = "empty"
    /\ Len(last.created) = 3
    /\ Cardinality(DOMAIN dbg) = 4
    /\ {dbg[last.created[k]].expr.off : k \in 1..3} = {0, elemBits, 2 * elemBits}

\* C3 (as the spec states it, for a value new other than old): after
\* migrate(old, new) has found the record R of old, R tracks new, find(old)
\* finds nothing, find(new) finds R, and R is the instruction right after
\* new when new is an instruction.
C3_MigrateRebinds ==
    (last.op = "migrate" /\ last.found # Null /\ last.a # last.b) =>
        /\ dbg[last.found].val = last.b
        /\ FindDbgValueInst(last.a) = Null
        /\ FindDbgValueInst(last.b) = last.found
        /\ IsInstruction(last.b) => NextNode(order, last.b) = last.found

\* C3 (amended): after migrate(old, new) has found the record R of old, R
\* tracks new, find(new) finds R, and R is the instruction right after new
\* when new is an instruction; find(old) finds nothing when new is another
\* value than old and R was the only record bound to old.
C3_MigrateRebindsOnlyRecord ==
    [][(last'.op = "migrate" /\ FindDbgValueInst(last'.a) # Null)
       => LET R == FindDbgValueInst(last'.a)
              old == last'.a
              new == last'.b
          IN  /\ dbg'[R].val = new
              /\ FindIn(mdv', uses', new) = R
              /\ IsInstruction(new) => NextNode(order', new) = R
              /\ (new # old /\ Len(uses[old]) = 1)
                    => FindIn(mdv', uses', old) = Null]_vars

C3_Witness ==
    /\ last.op = "migrate" /\ last.found # Null
    /\ last.a # last.b
    /\ IsInstruction(last.b)
    /\ FindDbgValueInst(last.a) = Null
    /\ Len(uses[last.b]) = 2

\* C6: a migrate call on a value without a bound record, and a scatter call
\* on a value that is no insertelement or has no bound record, change
\* nothing: no dbg.value is created, rebound or moved, no metadata wrapper
\* is made, and the block holds the same instructions in the same order.
C6_FailedLookupIsNoOp ==
    [][(\/ last'.op = "migrate" /\ FindDbgValueInst(last'.a) = Null
        \/ /\ last'.op = "scatter"
           /\ ~IsInsertElement(last'.a) \/ FindDbgValueInst(last'.a) = Null)
       => /\ UNCHANGED <<order, dbg, uses, mdv, chain, elemBits, aborted>>
          /\ last'.created = <<>>]_vars

C6_Witness ==
    /\ ops = MaxOps
    /\ last.op = "migrate" /\ last.found = Null
    /\ DOMAIN dbg # {}
    /\ last.b \notin mdv

\* C7: a scatter call that follows a scatter call on the same head adds, for
\* every insertelement of the chain, one more dbg.value with the element,
\* variable, piece and location of the one the first call added: 2N
\* per-element records and the whole-vector one when that was the only record.
C7_ScatterTwiceDoubles ==
    [][(/\ Scattered /\ last.returned
        /\ last'.op = "scatter" /\ last'.a = last.a /\ last'.returned)
       => LET N == last.a[2] IN
          /\ Len(last.created) = N
          /\ Len(last'.created) = N
          /\ SeqSet(last'.created) \cap DOMAIN dbg = {}
          /\ \A k \in 1..N : dbg'[last'.created[k]] = dbg'[last.created[k]]
          /\ Cardinality(DOMAIN dbg') = Cardinality(DOMAIN dbg) + N
          /\ Cardinality(DOMAIN dbg) = N + 1
                => Cardinality(DOMAIN dbg') = 2 * N + 1]_vars

C7_Witness ==
    /\ ops = 2
    /\ Scattered /\ last.returned
    /\ Len(last.created) = 3
    /\ Cardinality(DOMAIN dbg) = 7

\* C9: when the whole-vector dbg.value has the bit piece (P_off, P_size), the
\* record of the link with index i gets the piece (P_off + i*w, w), which
\* lies in the parent's bits when i*w + w <= P_size; when it has no bit
\* piece the record gets (i*w, w).
C9_NestedPiece ==
    Scattered =>
        \A k \in 1..Len(last.created) :
            LET P == dbg[last.found].expr
                i == IdxOperand(WalkLink(last.a, k))
                w == elemBits
                e == dbg[last.created[k]].expr
            IN  IF P.kind = "bit_piece"
                THEN /\ e = BitPiece(P.off + i * w, w)
                     /\ i * w + w <= P.size
                           => P.off <= e.off /\ e.off + e.size <= P.off + P.size
                ELSE e = BitPiece(i * w, w)

C9_Witness ==
    /\ Scattered /\ last.returned
    /\ dbg[last.found].expr.kind = "bit_piece"
    /\ Len(last.created) >= 2
    /\ \E k \in 1..Len(last.created) : dbg[last.created[k]].expr.off > dbg[last.found].expr.off

\* --------------------------------------------- the claims under SpecEmit

\* The diagnostic call has been made and has returned.
Returned == call # NoDiag /\ stack = <<>>
\* The instructions at most k user hops from I.
RECURSIVE WithinHops(_, _)
WithinHops(I, k) ==
    IF k = 0 THEN {I}
    ELSE LET S == WithinHops(I, k - 1) IN S \cup UNION {users[j] : j \in S}
\* The instructions at most k user hops from I on a path whose instructions
\* before the last are phis or selects without a location.
RECURSIVE ThroughPhiSelect(_, _)
ThroughPhiSelect(I, k) ==
    IF k = 0 THEN {I}
    ELSE LET S == ThroughPhiSelect(I, k - 1) IN
         S \cup UNION {users[j] : j \in {x \in S : ~hasLoc[x] /\ kind[x] # "other"}}
LocatedThroughPhiSelect(I, k) == {j \in ThroughPhiSelect(I, k) : hasLoc[j]}

\* C4: a diagnostic on a phi or select without a location is given the
\* location of an instruction that has one and is at most 4 user hops away
\* through phis and selects without a location, when there is one (also
\* when the nearest is exactly 4 hops away); when no instruction within 4
\* user hops has a location, the diagnostic has no location.
C4_FollowUpToFourHops ==
    (Returned /\ ~hasLoc[call.inst] /\ kind[call.inst] \in {"phi", "select"}) =>
        /\ LocatedThroughPhiSelect(call.inst, 4) # {}
              => /\ Len(sink) = 1
                 /\ \E j \in LocatedThroughPhiSelect(call.inst, 4) :
                      sink[1].loc = <<"loc", j>>
        /\ {j \in WithinHops(call.inst, 4) : hasLoc[j]} = {}
              => /\ Len(sink) = 1
                 /\ sink[1].loc = NoLoc

C4_Witness ==
    /\ Returned /\ ~hasLoc[call.inst] /\ kind[call.inst] \in {"phi", "select"}
    /\ LocatedThroughPhiSelect(call.inst, 3) = {}
    /\ LocatedThroughPhiSelect(call.inst, 4) # {}
    /\ Len(sink) = 1
    /\ sink[1].loc # NoLoc

\* C5 (the bound): the search is never called on an instruction more than 5
\* user hops from the one reported, and reads none further away.
DepthBounded ==
    /\ \A k \in 1..Len(stack) : stack[k].depth <= 5
    /\ \A e \in examined : e[2] <= 5

\* The most users an instruction has.
MaxFanout ==
    CHOOSE b \in 0..NumInstr :
        /\ \A i \in Instr : Cardinality(users[i]) <= b
        /\ \E i \in Instr : Cardinality(users[i]) = b
\* The calls of the search a run can make: b^0 + ... + b^d at depths 0..d.
RECURSIVE CallBound(_, _)
CallBound(b, d) == IF d = 0 THEN 1 ELSE 1 + b * CallBound(b, d - 1)

\* C5: the search stays within 5 user hops of the instruction reported, also
\* on a cycle of phis and selects without locations, and every diagnostic
\* call returns after finitely many steps: a call that has not returned can
\* take a step, and it takes at most 3 steps for each of the at most
\* 1 + b + ... + b^5 calls of the search (b: the most users of an
\* instruction) and 3 of its own.
C5_BoundedAndReturns ==
    /\ DepthBounded
    /\ nsteps <= 3 * CallBound(MaxFanout, 5) + 3
    /\ call # NoDiag => Returned \/ ENABLED Step

C5_Witness ==
    /\ Running
    /\ Top.depth = 5
    /\ \E k \in 1..Len(stack) - 1 :
         stack[k].fn = "Follow" /\ stack[k].inst = Top.inst /\ stack[k].depth < 5

\* C8: a diagnostic on an instruction without a location that is neither a
\* phi nor a select is delivered with no location and the function of the
\* instruction, and none of its users is looked at.
C8_NoFallbackForOthers ==
    (call # NoDiag /\ ~hasLoc[call.inst] /\ kind[call.inst] \notin {"phi", "select"}) =>
        /\ examined = {}
        /\ \A k \in 1..Len(stack) : stack[k].fn = "Emit" /\ stack[k].inst = call.inst
        /\ Returned =>
             sink = <<[fn |-> ParentFunction(call.inst), loc |-> NoLoc,
                       msg |-> call.msg, sev |-> call.sev]>>

C8_Witness ==
    /\ Returned
    /\ ~hasLoc[call.inst] /\ kind[call.inst] = "other"
    /\ \E U \in users[call.inst] : hasLoc[U]

\* C10: a diagnostic call delivers exactly one diagnostic, with the message
\* and the severity of the call, whatever the instruction and its users:
\* never a second one, and one when it has returned.
C10_ExactlyOneDiagnostic ==
    /\ Len(sink) <= 1
    /\ \A k \in 1..Len(sink) : sink[k].msg = call.msg /\ sink[k].sev = call.sev
    /\ Returned => Len(sink) = 1

C10_Witness ==
    /\ Returned
    /\ ~hasLoc[call.inst]
    /\ Cardinality(users[call.inst]) = 2
    /\ \A U \in users[call.inst] : hasLoc[U]
    /\ Len(sink) = 1

====
